---- MODULE Spec2Model ----
(***************************************************************************)
(* The iterator pattern of src/unnamed/part_000: an object literal whose   *)
(* four methods (hasNext, getNext, getCurrent, rewind) close over a cursor *)
(* `i` and an array `data`.  Two constructions exist: the IIFE `myObj`     *)
(* over an array literal, and getDOMIterator(element), which fills `data`  *)
(* by a depth-first walk of a DOM subtree before returning the same four   *)
(* methods.  The file is a sloppy-mode script, so the assignment           *)
(* `elem = data[i]` inside getNext writes a property of the global object. *)
(***************************************************************************)
EXTENDS Integers, Sequences, FiniteSets

\* ---- bounds of the model ----
MaxLen    == 3   \* longest array literal given to the IIFE iterator
MaxVal    == 2   \* array literals hold the numbers 1..MaxVal
MaxNodes  == 4   \* nodes of the document
MaxPast   == 2   \* recorded getNext calls beyond the end of data
MaxRewind == 2   \* the rewind counter saturates here
MaxEdits  == 1   \* changes made to the document after construction
MaxBoth   == 1   \* longest data when two iterators are in use together
MaxKeys   == 3   \* most properties of the object with Symbol.iterator
MaxNew    == 2   \* most `new Singleton()` calls per variant
MaxCalls  == 3   \* most calls of one counter
MaxCars   == 3   \* most cars the factory makes
MaxClock  == 2000 \* the clock stops here (milliseconds)
MaxObjs   == 2   \* objects and arrays in memory before a copy is made
MaxElems  == 1   \* longest array among them
MaxSources == 2  \* most arguments of mixin

\* ---- JavaScript values that are not elements of data ----
NULL       == 0    \* the `null` the methods return
UNDEFINED  == -1   \* `undefined`: an out-of-range read, a method without return
UNDECLARED == -2   \* the global `elem` before its first assignment

ELEMENT_NODE == 1  \* the nodeType DOMToArray tests for
TEXT_NODE    == 3

Iters == {"myObj", "listIterator"}
Variants == {"property", "closure", "frozen"}
Nodes == 1..MaxNodes
Ops   == {"construct", "hasNext", "getNext", "getCurrent", "rewind"}

VARIABLES
  nodeType,   \* document: node -> nodeType
  children,   \* document: node -> sequence of child nodes
  live,       \* the iterator objects that have been constructed
  data,       \* per iterator: the closed-over array
  i,          \* per iterator: the closed-over cursor (0-based)
  elem,       \* the global variable getNext assigns
  call,       \* the most recent call: iterator, method, cursor before, result
  prev,       \* the call before it: iterator, method, result
  first,      \* per iterator: getNext results before its first rewind
  log,        \* per iterator: getNext results since construction or last rewind
  rewinds,    \* per iterator: number of rewind calls, saturating
  root,       \* the argument getDOMIterator was called with (NULL for myObj)
  edits,      \* number of changes made to the document after construction
  watch,      \* the iterators whose results first, log and rewinds keep
  from        \* the cursor a loop over the iterator started at

\* the object with a Symbol.iterator method and its two iterators
VARIABLES
  obj,        \* keys: Object.keys(obj) in order; val: key -> property value
  cl,         \* closure of the hand-written iterator: keys, i
  gen,        \* the generator object: pc, and its locals keys, i
  outC,       \* results of the hand-written iterator's next()
  outG        \* results of the generator's next()

\* the Singleton constructors
VARIABLES
  heap,       \* the objects `new` has allocated, by identity 1, 2, ...
  instance,   \* per variant: Singleton.instance / the closure's instance
  returned,   \* per variant: what each `new Singleton()` evaluated to
  inits,      \* per variant: how often start and version were initialised
  tried       \* the variants through whose objects a write has been attempted

\* the counters of the closure demonstrations
VARIABLES
  currentNumber,   \* per closure counter: the variable its closure holds
  currentNumber1,  \* the global variable counter1 uses
  returns          \* per counter: what its calls returned, in order

\* the car factory
VARIABLES
  proto,      \* per function with a prototype property: is it a `new CarMaker()`
  cars,       \* the cars CarMaker.factory has returned, in order
  outcome     \* the most recent CarMaker.factory(type): type, what it threw, the car

\* the setTimeout examples
VARIABLES
  env,        \* where the script runs: "node" or "browser"
  pc,         \* the next of the five setTimeout statements; Done after the last
  clock,      \* milliseconds since the script started
  timers,     \* the timers registered: callback, registration time, due time, fired at
  console     \* the output: text, who printed it (0 the script, k timer k), pc then

\* the increaseByOne example
VARIABLES
  arr1,       \* the array const arr1 names
  literal,    \* the array literal arr1 was initialised with
  stmt,       \* the statement to run next: "call", "log", then "end"
  printed     \* what console.log(arr1) showed

\* copying objects: copy, deepCopy and mixin
VARIABLES
  store,      \* the objects and arrays in memory, by identity 1, 2, ...
  newone,     \* the object the call returned (0: none)
  how,        \* the call made: "none", "copy", "deepCopy" or "mixin"
  picked,     \* the arguments of mixin, in order
  failed,     \* the call threw
  mutated     \* a change was made through the returned object

iterVars == <<nodeType, children, live, data, i, elem, call, prev, first, log, rewinds,
              root, edits, watch, from>>
symVars  == <<obj, cl, gen, outC, outG>>
singVars == <<heap, instance, returned, inits, tried>>
ctrVars  == <<currentNumber, currentNumber1, returns>>
carVars  == <<proto, cars, outcome>>
timerVars == <<env, pc, clock, timers, console>>
arrVars == <<arr1, literal, stmt, printed>>
copyVars == <<store, newone, how, picked, failed, mutated>>

\* the variables of the other demonstrations
elsewhere == <<symVars, singVars, ctrVars, carVars, timerVars, arrVars, copyVars>>

\* what the four methods of an iterator can never reach
outside == <<root, edits, watch, from, elsewhere>>

vars == <<iterVars, symVars, singVars, ctrVars, carVars, timerVars, arrVars, copyVars>>

\* what the code of one demonstration cannot reach: the others' variables
notSym  == <<iterVars, singVars, ctrVars, carVars, timerVars, arrVars, copyVars>>
notSing == <<iterVars, symVars, ctrVars, carVars, timerVars, arrVars, copyVars>>
notCtr  == <<iterVars, symVars, singVars, carVars, timerVars, arrVars, copyVars>>
notCar  == <<iterVars, symVars, singVars, ctrVars, timerVars, arrVars, copyVars>>
notTimer == <<iterVars, symVars, singVars, ctrVars, carVars, arrVars, copyVars>>
notArr == <<iterVars, symVars, singVars, ctrVars, carVars, timerVars, copyVars>>
notCopy == <<iterVars, symVars, singVars, ctrVars, carVars, timerVars, arrVars>>

\* The file has no "use strict" directive (part_001, part_002 and part_005 do).
UseStrict == FALSE

\* data.length
length(it) == Len(data[it])

\* data[idx] for a 0-based idx: undefined outside the array
At(arr, idx) == IF idx >= 0 /\ idx < Len(arr) THEN arr[idx + 1] ELSE UNDEFINED

Min(a, b) == IF a < b THEN a ELSE b

\* ---- array literals and documents ----
RECURSIVE SeqsUpTo(_, _)
SeqsUpTo(S, n) ==
  IF n = 0 THEN {<<>>}
  ELSE LET shorter == SeqsUpTo(S, n - 1)
       IN  shorter \cup {Append(s, v) : s \in {t \in shorter : Len(t) = n - 1}, v \in S}

Literals == SeqsUpTo(1..MaxVal, MaxLen)

\* node 1 is the document's root; every other node hangs under a smaller one
ParentFns == {p \in [2..MaxNodes -> Nodes] : \A n \in 2..MaxNodes : p[n] < n}

RECURSIVE Ascending(_)
Ascending(S) ==
  IF S = {} THEN <<>>
  ELSE LET m == CHOOSE x \in S : \A y \in S : x <= y
       IN  <<m>> \o Ascending(S \ {m})

ChildrenOf(p, n) == Ascending({m \in 2..MaxNodes : p[m] = n})

\* ---- getDOMIterator's helper: depth-first walk into an array ----
RECURSIVE DOMToArray(_)
RECURSIVE forEachChild(_)

\* the element pushed after its children instead of before them
DOMToArray_postOrder(element) ==
  IF nodeType[element] = ELEMENT_NODE
  THEN forEachChild(children[element]) \o <<element>>
  ELSE <<>>

\* a node that is not an element is left out, but its children are walked
DOMToArray_descendAnyway(element) ==
  (IF nodeType[element] = ELEMENT_NODE THEN <<element>> ELSE <<>>)
    \o forEachChild(children[element])

DOMToArray(element) ==
  IF nodeType[element] = ELEMENT_NODE
  THEN <<element>> \o forEachChild(children[element])
  ELSE <<>>
forEachChild(kids) ==
  IF kids = <<>> THEN <<>>
  ELSE DOMToArray(Head(kids)) \o forEachChild(Tail(kids))

\* ---- bookkeeping shared by the method actions ----
Record(it, op, ret, threw) ==
  /\ call' = [it |-> it, op |-> op, pre |-> i[it], ret |-> ret, threw |-> threw]
  /\ prev' = [it |-> call.it, op |-> call.op, ret |-> call.ret]

\* the Symbol.iterator demonstration not started
SymIdle ==
  /\ obj = [keys |-> <<>>, val |-> <<>>]
  /\ cl = [keys |-> <<>>, i |-> 0]
  /\ gen = [pc |-> "start", keys |-> <<>>, i |-> 0]
  /\ outC = <<>>
  /\ outG = <<>>

\* no Singleton constructed yet
SingIdle ==
  /\ heap = <<>>
  /\ instance = [v \in Variants |-> UNDEFINED]
  /\ returned = [v \in Variants |-> <<>>]
  /\ inits = [v \in Variants |-> 0]
  /\ tried = {}

\* the iterator demonstrations not running
IterIdle ==
  /\ nodeType = [n \in Nodes |-> ELEMENT_NODE]
  /\ children = [n \in Nodes |-> <<>>]
  /\ live = {} /\ watch = {} /\ from = 0
  /\ data = [x \in Iters |-> <<>>]
  /\ i = [x \in Iters |-> 0]
  /\ first = [x \in Iters |-> <<>>]
  /\ log = [x \in Iters |-> <<>>]
  /\ rewinds = [x \in Iters |-> 0]
  /\ root = NULL /\ edits = 0 /\ elem = UNDECLARED
  /\ prev = [it |-> "myObj", op |-> "construct", ret |-> UNDEFINED]
  /\ call = [it |-> "myObj", op |-> "construct", pre |-> 0, ret |-> UNDEFINED, threw |-> FALSE]

\* the closure counters
Counters == {"betterCounter1", "betterCounter2", "betterCounter3"}

\* the argument the IIFE of betterCounter3 is called with; the others start at 0
Start(c) == IF c = "betterCounter3" THEN 9 ELSE 0

\* no counter called yet: createCounter() and the two IIFEs have run
CtrIdle ==
  /\ currentNumber = [c \in Counters |-> Start(c)]
  /\ currentNumber1 = 0
  /\ returns = [c \in Counters \cup {"counter1"} |-> <<>>]

\* the constructors registered on CarMaker
CarCtors == {"SUV", "Convertible", "Compact"}

\* CarMaker.factory not called yet
CarIdle ==
  /\ proto = [t \in CarCtors \cup {"factory"} |-> FALSE]
  /\ cars = <<>>
  /\ outcome = [type |-> "none", threw |-> "no", car |-> 0]

\* the delay every setTimeout call of the examples passes
Delay == 1000

\* before the first setTimeout statement
TimerIdle ==
  /\ env = "node"
  /\ pc = 1 /\ clock = 0
  /\ timers = <<>>
  /\ console = <<>>

\* before const arr1 = [...]
ArrIdle ==
  /\ literal = <<>>
  /\ arr1 = literal
  /\ stmt = "call"
  /\ printed = <<>>

\* nothing in memory, nothing copied
CopyIdle ==
  /\ store = <<>>
  /\ newone = 0
  /\ how = "none"
  /\ picked = <<>>
  /\ failed = FALSE
  /\ mutated = FALSE

\* every demonstration but g as it is before it runs
IdleBut(g) ==
  /\ IF g = "iter" THEN TRUE ELSE IterIdle
  /\ IF g = "sym" THEN TRUE ELSE SymIdle
  /\ IF g = "sing" THEN TRUE ELSE SingIdle
  /\ IF g = "ctr" THEN TRUE ELSE CtrIdle
  /\ IF g = "car" THEN TRUE ELSE CarIdle
  /\ IF g = "timer" THEN TRUE ELSE TimerIdle
  /\ IF g = "arr" THEN TRUE ELSE ArrIdle
  /\ g = "copy" \/ CopyIdle

Fresh(it, arr, constructed) ==
  /\ IdleBut("iter")
  /\ live = IF constructed THEN {it} ELSE {}
  /\ data = [x \in Iters |-> IF x = it THEN arr ELSE <<>>]
  /\ i = [x \in Iters |-> 0]
  /\ first = [x \in Iters |-> <<>>]
  /\ log = [x \in Iters |-> <<>>]
  /\ rewinds = [x \in Iters |-> 0]
  /\ prev = [it |-> it, op |-> "construct", ret |-> UNDEFINED]
  /\ edits = 0
  /\ watch = live
  /\ from = 0

\* the IIFE that builds myObj over an array literal
InitMyObj ==
  /\ nodeType = [n \in Nodes |-> ELEMENT_NODE]
  /\ children = [n \in Nodes |-> <<>>]
  /\ \E arr \in Literals : Fresh("myObj", arr, TRUE)
  /\ root = NULL
  /\ elem = UNDECLARED
  /\ call = [it |-> "myObj", op |-> "construct", pre |-> 0, ret |-> UNDEFINED, threw |-> FALSE]

\* getDOMIterator(element) over some document; element is a node of it, or
\* null when querySelector found nothing.  `elem` may hold what an earlier
\* myObj.getNext left in the global.
Kids(n) == {children[n][k] : k \in 1..Len(children[n])}

RECURSIVE Desc(_)
\* n and everything below it
Desc(n) == {n} \cup UNION {Desc(c) : c \in Kids(n)}

InitDOMIterator ==
  /\ nodeType \in [Nodes -> {ELEMENT_NODE, TEXT_NODE}]
  /\ \E p \in ParentFns : children = [n \in Nodes |-> ChildrenOf(p, n)]
  /\ elem \in {UNDECLARED, 1}
  /\ \E element \in Nodes \cup {NULL} :
       /\ root = element
       /\ IF element = NULL
          THEN \* element.nodeType on null: TypeError, no iterator is returned
               /\ Fresh("listIterator", <<>>, FALSE)
               /\ call = [it |-> "listIterator", op |-> "construct", pre |-> 0,
                          ret |-> UNDEFINED, threw |-> TRUE]
          ELSE /\ Fresh("listIterator", DOMToArray(element), TRUE)
               /\ call = [it |-> "listIterator", op |-> "construct", pre |-> 0,
                          ret |-> UNDEFINED, threw |-> FALSE]
  \* the nodes that are not below element are never looked at: all elements
  /\ \A n \in Nodes : nodeType[n] = ELEMENT_NODE \/ (root # NULL /\ n \in Desc(root))

Init == InitMyObj \/ InitDOMIterator

\* ---- the four methods of the returned object ----

\* off by one: the cursor may sit on data.length and still "have" a next
hasNext_le(it) == i[it] <= length(it)

\* hasNext() { return i < data.length; }
hasNext(it) == i[it] < length(it)

\* results of getNext are remembered up to MaxPast calls beyond the end
Remember(it, ret) ==
  LET cap  == IF it \in watch THEN length(it) + MaxPast ELSE 0
      log2 == IF Len(log[it]) < cap THEN Append(log[it], ret) ELSE log[it]
  IN  /\ log' = [log EXCEPT ![it] = log2]
      /\ first' = IF rewinds[it] = 0 THEN [first EXCEPT ![it] = log2] ELSE first

CallHasNext(it) ==
  /\ it \in live
  /\ Record(it, "hasNext", hasNext(it), FALSE)
  /\ UNCHANGED <<outside, nodeType, children, live, data, i, elem, first, log, rewinds>>

\* variants of getNext with one slip each
getNextWith(it, guarded, readAt, step, throwAtEnd) ==
  /\ it \in live
  /\ IF guarded /\ ~hasNext(it)
     THEN /\ Record(it, "getNext", NULL, throwAtEnd)
          /\ IF throwAtEnd THEN UNCHANGED <<first, log>> ELSE Remember(it, NULL)
          /\ UNCHANGED <<i, elem>>
     ELSE /\ elem' = At(data[it], readAt)
          /\ i' = [i EXCEPT ![it] = i[it] + step]
          /\ Record(it, "getNext", elem', FALSE)
          /\ Remember(it, elem')
  /\ UNCHANGED <<outside, nodeType, children, live, data, rewinds>>

\* i += 1 before the read
getNext_preIncrement(it) == getNextWith(it, TRUE, i[it] + 1, 1, FALSE)
\* the hasNext guard left out
getNext_noGuard(it) == getNextWith(it, FALSE, i[it], 1, FALSE)
\* i += 1 left out
getNext_noAdvance(it) == getNextWith(it, TRUE, i[it], 0, FALSE)
\* running off the end raises instead of returning null
getNext_throwAtEnd(it) == getNextWith(it, TRUE, i[it], 1, TRUE)

\* `let i` left out of the closures: one cursor for every iterator
getNext_sharedCursor(it) ==
  /\ it \in live
  /\ IF ~hasNext(it)
     THEN /\ Record(it, "getNext", NULL, FALSE)
          /\ Remember(it, NULL)
          /\ UNCHANGED <<i, elem>>
     ELSE /\ elem' = At(data[it], i[it])
          /\ i' = [x \in Iters |-> i[it] + 1]
          /\ Record(it, "getNext", elem', FALSE)
          /\ Remember(it, elem')
  /\ UNCHANGED <<outside, nodeType, children, live, data, rewinds>>

\* a walk on demand: every getNext of the tree-flattened iterator fills data again
getNext_rewalk(it) ==
  /\ it \in live
  /\ LET fresh == IF root \in Nodes THEN DOMToArray(root) ELSE data[it]
     IN  /\ data' = [data EXCEPT ![it] = fresh]
         /\ IF ~(i[it] < Len(fresh))
            THEN /\ Record(it, "getNext", NULL, FALSE)
                 /\ Remember(it, NULL)
                 /\ UNCHANGED <<i, elem>>
            ELSE /\ elem' = At(fresh, i[it])
                 /\ i' = [i EXCEPT ![it] = i[it] + 1]
                 /\ Record(it, "getNext", elem', FALSE)
                 /\ Remember(it, elem')
  /\ UNCHANGED <<outside, nodeType, children, live, rewinds>>

getNext(it) ==
  /\ it \in live
  /\ IF ~hasNext(it)
     THEN \* if (!this.hasNext()) { return null; }
          /\ Record(it, "getNext", NULL, FALSE)
          /\ Remember(it, NULL)
          /\ UNCHANGED <<i, elem>>
     ELSE IF UseStrict
     THEN \* strict code: assigning the undeclared elem is a ReferenceError
          /\ Record(it, "getNext", UNDEFINED, TRUE)
          /\ UNCHANGED <<i, elem, first, log>>
     ELSE \* elem = data[i]; i += 1; return elem;
          /\ elem' = At(data[it], i[it])
          /\ i' = [i EXCEPT ![it] = i[it] + 1]
          /\ Record(it, "getNext", elem', FALSE)
          /\ Remember(it, elem')
  /\ UNCHANGED <<outside, nodeType, children, live, data, rewinds>>

\* the hasNext guard left out: reads data[data.length] at the end
getCurrent_noGuard(it) ==
  /\ it \in live
  /\ Record(it, "getCurrent", At(data[it], i[it]), FALSE)
  /\ UNCHANGED <<outside, nodeType, children, live, data, i, elem, first, log, rewinds>>

\* peeking moves the cursor, as getNext does
getCurrent_advancing(it) ==
  /\ it \in live
  /\ IF ~hasNext(it)
     THEN Record(it, "getCurrent", NULL, FALSE) /\ UNCHANGED i
     ELSE /\ Record(it, "getCurrent", At(data[it], i[it]), FALSE)
          /\ i' = [i EXCEPT ![it] = i[it] + 1]
  /\ UNCHANGED <<outside, nodeType, children, live, data, elem, first, log, rewinds>>

getCurrent(it) ==
  /\ it \in live
  /\ IF ~hasNext(it)
     THEN Record(it, "getCurrent", NULL, FALSE)
     ELSE Record(it, "getCurrent", At(data[it], i[it]), FALSE)
  /\ UNCHANGED <<outside, nodeType, children, live, data, i, elem, first, log, rewinds>>

\* the rewind counter of a watched iterator, saturating
Counted(it) == IF it \in watch THEN Min(rewinds[it] + 1, MaxRewind) ELSE rewinds[it]

rewindTo(it, target) ==
  /\ it \in live
  /\ i' = [i EXCEPT ![it] = target]
  /\ Record(it, "rewind", UNDEFINED, FALSE)
  /\ log' = [log EXCEPT ![it] = <<>>]
  /\ rewinds' = [rewinds EXCEPT ![it] = Counted(it)]
  /\ UNCHANGED <<outside, nodeType, children, live, data, elem, first>>

\* resets to the second element (a 1-based slip)
rewind_toOne(it) == rewindTo(it, Min(1, length(it)))
\* resets only while elements are left: an exhausted iterator stays exhausted
rewind_onlyIfMore(it) == rewindTo(it, IF hasNext(it) THEN 0 ELSE i[it])

\* rewind() { i = 0; }
rewind(it) ==
  /\ it \in live
  /\ i' = [i EXCEPT ![it] = 0]
  /\ Record(it, "rewind", UNDEFINED, FALSE)
  /\ log' = [log EXCEPT ![it] = <<>>]
  /\ rewinds' = [rewinds EXCEPT ![it] = Counted(it)]
  /\ UNCHANGED <<outside, nodeType, children, live, data, elem, first>>

Next ==
  \/ \E it \in Iters : CallHasNext(it)
  \/ \E it \in Iters : getNext(it)
  \/ \E it \in Iters : getCurrent(it)
  \/ \E it \in Iters : rewind(it)

Spec == Init /\ [][Next]_vars

TypeOK ==
  /\ live \subseteq Iters
  /\ \A it \in Iters : i[it] \in Nat /\ rewinds[it] \in 0..MaxRewind
  /\ call.op \in Ops /\ call.it \in Iters

\* ---- properties ----
Methods == {"hasNext", "getNext", "getCurrent", "rewind"}

\* the last call was method op of a constructed iterator
Called(it, op) == it \in live /\ call.it = it /\ call.op = op
\* ... and the call before it was method op of the same iterator
Before(it, op) == prev.it = it /\ prev.op = op

\* C1: getNext at cursor c < n returns data[c] and leaves the cursor at c + 1;
\* at c = n it returns null and leaves the cursor at n.
C1_GetNext ==
  \A it \in Iters : Called(it, "getNext") =>
    /\ call.pre < length(it) =>
         /\ call.ret = data[it][call.pre + 1]
         /\ i[it] = call.pre + 1
    /\ call.pre = length(it) =>
         /\ call.ret = NULL
         /\ i[it] = length(it)

\* a getNext at the end that follows a getNext that returned the last element
C1_Witness ==
  \E it \in Iters :
    /\ Called(it, "getNext") /\ Before(it, "getNext")
    /\ length(it) > 0 /\ call.pre = length(it)
    /\ prev.ret = data[it][length(it)]

\* C2: hasNext returns true exactly when cursor < length: true at the
\* positions 0..n-1, false at position n.
C2_HasNext ==
  \A it \in Iters : Called(it, "hasNext") =>
    /\ call.pre \in 0..(length(it) - 1) => call.ret = TRUE
    /\ call.pre = length(it) => call.ret = FALSE
    /\ call.ret = (i[it] < Len(data[it]))

\* hasNext answered false at the end of a non-empty array, after a getNext
C2_Witness ==
  \E it \in Iters :
    /\ Called(it, "hasNext") /\ Before(it, "getNext")
    /\ length(it) > 0 /\ call.pre = length(it) /\ call.ret = FALSE

\* C3: getCurrent returns data[cursor] while elements are left and null at
\* the end, and a getNext that directly follows it returns the same value.
C3_GetCurrent ==
  \A it \in Iters :
    /\ Called(it, "getCurrent") =>
         /\ call.pre < length(it) => call.ret = data[it][call.pre + 1]
         /\ call.pre >= length(it) => call.ret = NULL
    /\ (Called(it, "getNext") /\ Before(it, "getCurrent")) => call.ret = prev.ret

\* a getCurrent that returned an element, directly followed by getNext
C3_Witness ==
  \E it \in Iters :
    /\ Called(it, "getNext") /\ Before(it, "getCurrent")
    /\ prev.ret # NULL /\ call.pre > 0

\* C4: consecutive getCurrent calls return the same value and leave the
\* cursor where it was.
C4_PeekRepeats ==
  \A it \in Iters :
    /\ Called(it, "getCurrent") => i[it] = call.pre
    /\ (Called(it, "getCurrent") /\ Before(it, "getCurrent")) => call.ret = prev.ret

\* two getCurrent calls in a row on an element that is not the first
C4_Witness ==
  \E it \in Iters :
    /\ Called(it, "getCurrent") /\ Before(it, "getCurrent")
    /\ call.ret # NULL /\ i[it] > 0

\* C5: rewind succeeds in every state and leaves the cursor at 0; a second
\* rewind in a row finds the cursor at 0 and leaves the same state.
C5_Rewind ==
  \A it \in Iters :
    /\ Called(it, "rewind") => (i[it] = 0 /\ ~call.threw /\ log[it] = <<>>)
    /\ (Called(it, "rewind") /\ Before(it, "rewind")) => call.pre = 0

\* rewind called on an exhausted, non-empty iterator
C5_Witness ==
  \E it \in Iters :
    /\ Called(it, "rewind") /\ Before(it, "getNext")
    /\ length(it) > 0 /\ call.pre = length(it) /\ i[it] = 0

\* C6: 0 <= cursor <= length(items) after any sequence of calls.
C6_CursorInRange ==
  \A it \in Iters : 0 <= i[it] /\ i[it] <= length(it)

\* getNext was called twice beyond the end
C6_Witness ==
  \E it \in Iters :
    /\ Called(it, "getNext") /\ length(it) > 0
    /\ Len(log[it]) = length(it) + 2
    /\ i[it] = length(it)

\* C7: before any rewind, the k-th getNext returns data[k-1] for k <= n and
\* null for k = n + 1.
C7_FirstDrain ==
  \A it \in Iters : (it \in live /\ rewinds[it] = 0) =>
    \A k \in 1..Len(first[it]) :
      first[it][k] = IF k <= length(it) THEN data[it][k] ELSE NULL

\* a literal of at least two elements drained by n + 1 calls
C7_Witness ==
  /\ "myObj" \in live /\ rewinds["myObj"] = 0
  /\ length("myObj") >= 2
  /\ Len(first["myObj"]) = length("myObj") + 1

\* C8: after any number of rewinds, the getNext results since the last
\* rewind repeat those of the first drain call by call.
C8_Redrain ==
  \A it \in Iters : (it \in live /\ rewinds[it] >= 1) =>
    \A k \in 1..Min(Len(log[it]), Len(first[it])) : log[it][k] = first[it][k]

\* a complete drain after the second rewind, the first drain being complete
C8_Witness ==
  \E it \in Iters :
    /\ it \in live /\ rewinds[it] >= 2 /\ length(it) >= 2
    /\ Len(first[it]) > length(it)
    /\ Len(log[it]) = length(it) + 1

\* C9: over an array of length 0, hasNext is false and getNext and
\* getCurrent return null without raising, whatever was called before.
C9_Empty ==
  \A it \in Iters : (it \in live /\ length(it) = 0) =>
    /\ Called(it, "hasNext") => call.ret = FALSE
    /\ (Called(it, "getNext") \/ Called(it, "getCurrent")) =>
         (call.ret = NULL /\ ~call.threw)

\* getNext on an empty array, after a getCurrent and a rewind
C9_Witness ==
  \E it \in Iters :
    /\ length(it) = 0 /\ Called(it, "getNext") /\ Before(it, "getCurrent")
    /\ rewinds[it] >= 1

\* C10: no call of the four methods raises; at the end of data getNext and
\* getCurrent answer null.
C10_NoThrow ==
  \A it \in Iters : (it \in live /\ call.it = it /\ call.op \in Methods) =>
    /\ ~call.threw
    /\ (call.op \in {"getNext", "getCurrent"} /\ call.pre >= length(it)) => call.ret = NULL

\* the tree-flattened iterator asked for an element beyond its last one
C10_Witness ==
  /\ Called("listIterator", "getNext") /\ length("listIterator") >= 2
  /\ Len(log["listIterator"]) > length("listIterator")
  /\ ~call.threw

\* ---- the document, described without walking it in order ----
Range(seq) == {seq[k] : k \in 1..Len(seq)}
Pos(seq, x) == CHOOSE k \in 1..Len(seq) : seq[k] = x

\* the tree-flattened iterator exists and was built from a node
Flattened == "listIterator" \in live /\ root \in Nodes

\* C11: over a subtree of element nodes only, data is the pre-order listing:
\* every node of the subtree once, the root first, the subtree of each node
\* in one block right behind it, the blocks of siblings in child order.
C11_PreOrder ==
  (Flattened /\ \A n \in Desc(root) : nodeType[n] = ELEMENT_NODE) =>
    LET d == data["listIterator"]
    IN  /\ Range(d) = Desc(root)
        /\ Len(d) = Cardinality(Desc(root))
        /\ d[1] = root
        /\ \A n \in Desc(root) :
             /\ {Pos(d, m) : m \in Desc(n)} =
                  Pos(d, n)..(Pos(d, n) + Cardinality(Desc(n)) - 1)
             /\ \A j, k \in 1..Len(children[n]) :
                  j < k => Pos(d, children[n][j]) < Pos(d, children[n][k])

\* a root with two leaf children, drained to the end: root, child1, child2, null
C11_Witness ==
  /\ Flattened
  /\ Len(children[root]) = 2
  /\ \A c \in Kids(root) : children[c] = <<>> /\ nodeType[c] = ELEMENT_NODE
  /\ log["listIterator"] = <<root, children[root][1], children[root][2], NULL>>

\* C12: a node that is not an element is not in data and neither is anything
\* below it; an element is in data exactly when it is the root or its parent
\* is in data, so the siblings of a skipped node are still listed.
C12_SkipsSubtree ==
  Flattened =>
    LET d == Range(data["listIterator"])
    IN  /\ \A n \in Desc(root) :
             nodeType[n] # ELEMENT_NODE => d \cap Desc(n) = {}
        /\ \A n \in Desc(root) : \A c \in Kids(n) :
             c \in d <=> (nodeType[c] = ELEMENT_NODE /\ n \in d)
        /\ root \in d <=> nodeType[root] = ELEMENT_NODE

\* the first child is a text node with an element below it, the second child
\* is an element: only the root and the second child are listed
C12_Witness ==
  /\ Flattened
  /\ Len(children[root]) = 2
  /\ nodeType[children[root][1]] = TEXT_NODE
  /\ \E g \in Kids(children[root][1]) : nodeType[g] = ELEMENT_NODE
  /\ data["listIterator"] = <<root, children[root][2]>>
  /\ Called("listIterator", "getNext")

\* element is null, or a node that is not an element
NonElementRoot == IF root \in Nodes THEN nodeType[root] # ELEMENT_NODE ELSE TRUE

\* C13: getDOMIterator given a root that is not a traversable node does not
\* fail and returns an iterator over no items.
C13_NonNodeRoot ==
  (call.it = "listIterator" /\ NonElementRoot) =>
    /\ ~(call.op = "construct" /\ call.threw)
    /\ "listIterator" \in live
    /\ data["listIterator"] = <<>>
    /\ ~hasNext("listIterator")
    /\ Called("listIterator", "getNext") => call.ret = NULL

\* ---- the document changing under a constructed iterator ----
RemoveFrom(seq, x) == SelectSeq(seq, LAMBDA y : y # x)

\* parent.appendChild(child): child leaves its old place and becomes the last
\* child of parent; a node cannot be put below itself
appendChild(parent, child) ==
  /\ edits < MaxEdits
  /\ parent \notin Desc(child)
  /\ children' = [n \in Nodes |->
                    IF n = parent THEN Append(RemoveFrom(children[n], child), child)
                    ELSE RemoveFrom(children[n], child)]
  /\ edits' = edits + 1
  /\ UNCHANGED <<nodeType, live, data, i, elem, call, prev, first, log, rewinds, root, watch, from, elsewhere>>

\* parent.removeChild(child)
removeChild(parent, child) ==
  /\ edits < MaxEdits
  /\ child \in Kids(parent)
  /\ children' = [children EXCEPT ![parent] = RemoveFrom(children[parent], child)]
  /\ edits' = edits + 1
  /\ UNCHANGED <<nodeType, live, data, i, elem, call, prev, first, log, rewinds, root, watch, from, elsewhere>>

\* getDOMIterator(element) on the root of a document of elements, nothing
\* left in elem; the nodes all hang under the root, or each under the node
\* before it
InitTree ==
  /\ InitDOMIterator
  /\ root = Head(Ascending(Nodes))
  /\ \/ \A n \in Nodes : \A k \in 1..Len(children[n]) : n = root
     \/ \A n \in Nodes : \A k \in 1..Len(children[n]) : children[n][k] = n + 1
  /\ \A n \in Nodes : nodeType[n] = ELEMENT_NODE
  /\ elem = UNDECLARED

NextTree ==
  \/ \E it \in Iters : CallHasNext(it)
  \/ \E it \in Iters : getNext(it)
  \/ \E it \in Iters : getCurrent(it)
  \/ \E it \in Iters : rewind(it)
  \/ \E parent, child \in Nodes : appendChild(parent, child)
  \/ \E parent, child \in Nodes : removeChild(parent, child)

SpecTree == InitTree /\ [][NextTree]_vars

\* the results since construction or the last rewind are data, then nulls
ResultsFromData(it) ==
  \A k \in 1..Len(log[it]) :
    log[it][k] = IF k <= Len(data[it]) THEN data[it][k] ELSE NULL

\* C14: no step changes data, whether a method call or a change of the
\* document, and the results an iterator returns stay those of its data
\* whatever has happened to the document since.
C14_ItemsFixed ==
  /\ [][data' = data]_vars
  /\ [](\A it \in Iters : it \in live => ResultsFromData(it))

\* an element returned after the document changed, from data that no longer
\* is what a walk of the document would give
C14_Witness ==
  /\ Flattened /\ edits >= 1
  /\ DOMToArray(root) # data["listIterator"]
  /\ Called("listIterator", "getNext") /\ call.ret # NULL
  /\ Len(log["listIterator"]) = Len(data["listIterator"])

\* C15: a step that changes an iterator's cursor is a getNext of that
\* iterator, which adds one, or a rewind of it, which sets it to 0; hasNext,
\* getCurrent and changes of the document leave every cursor alone.
C15_CursorWriters ==
  [][\A it \in Iters :
       i'[it] # i[it] =>
         /\ call'.it = it
         /\ \/ call'.op = "getNext" /\ i'[it] = i[it] + 1
            \/ call'.op = "rewind" /\ i'[it] = 0]_vars

\* the cursor went back to 0 by a rewind that followed a getCurrent, in a
\* document that has changed since construction
C15_Witness ==
  \E it \in Iters :
    /\ Called(it, "rewind") /\ Before(it, "getCurrent")
    /\ call.pre > 0 /\ i[it] = 0 /\ edits >= 1

\* C16: rewind can be called in every state; it leaves a non-empty iterator
\* with elements to read (HAS_MORE) and an empty one exhausted, and the
\* getNext after it returns the first element again.
C16_RewindReopens ==
  \A it \in Iters : it \in live =>
    /\ ENABLED rewind(it)
    /\ Called(it, "rewind") =>
         IF Len(data[it]) > 0 THEN i[it] < Len(data[it]) ELSE i[it] = Len(data[it])
    /\ (Called(it, "getNext") /\ Before(it, "rewind") /\ Len(data[it]) > 0) =>
         (call.ret = data[it][1] /\ call.ret # NULL)

\* an iterator drained to the end, rewound, and read again
C16_Witness ==
  \E it \in Iters :
    /\ Called(it, "getNext") /\ Before(it, "rewind")
    /\ Len(first[it]) > Len(data[it])
    /\ call.ret # NULL /\ i[it] = 1

\* ---- two iterators in use together ----
\* myObj and an iterator from getDOMIterator(element), both constructed and
\* none used yet; the results of one of them are kept.  The document is a
\* chain of nested elements, element one of its last MaxBoth nodes.
InitBoth ==
  /\ IdleBut("iter")
  /\ nodeType = [n \in Nodes |-> ELEMENT_NODE]
  /\ children = [n \in Nodes |-> ChildrenOf([m \in 2..MaxNodes |-> m - 1], n)]
  /\ root \in Nodes
  /\ Len(DOMToArray(root)) <= MaxBoth
  /\ \E arr \in Literals :
       /\ Len(arr) <= MaxBoth
       /\ data = [x \in Iters |-> IF x = "myObj" THEN arr ELSE DOMToArray(root)]
  /\ live = Iters
  /\ \E a \in Iters : watch = {a}
  /\ from = 0
  /\ i = [x \in Iters |-> 0]
  /\ first = [x \in Iters |-> <<>>]
  /\ log = [x \in Iters |-> <<>>]
  /\ rewinds = [x \in Iters |-> 0]
  /\ edits = 0
  /\ elem = UNDECLARED
  /\ prev = [it |-> "myObj", op |-> "construct", ret |-> UNDEFINED]
  /\ call = [it |-> "listIterator", op |-> "construct", pre |-> 0,
             ret |-> UNDEFINED, threw |-> FALSE]

NextBoth ==
  \/ \E it \in Iters : CallHasNext(it)
  \/ \E it \in Iters : getNext(it)
  \/ \E it \in Iters : getCurrent(it)
  \/ \E it \in Iters : rewind(it)

SpecBoth == InitBoth /\ [][NextBoth]_vars

\* C17: with two iterators called in any interleaving, a call of one leaves
\* the cursor, the data and the recorded results of the other as they were,
\* and the results of the watched one are those of its own data in order,
\* as they are when it is used alone, whatever the other left in elem.
C17_Isolation ==
  /\ [][\A a \in Iters :
          call'.it # a => (i'[a] = i[a] /\ data'[a] = data[a] /\ log'[a] = log[a])]_vars
  /\ [](\A a \in watch :
          /\ ResultsFromData(a)
          /\ Called(a, "getNext") =>
               call.ret = IF call.pre < Len(data[a]) THEN data[a][call.pre + 1] ELSE NULL)

\* after a rewind the watched iterator returned its element again although
\* the other iterator's getNext ran just before and left another value in elem
C17_Witness ==
  \E a, b \in Iters :
    /\ a # b /\ watch = {a}
    /\ Called(a, "getNext") /\ prev.it = b /\ prev.op = "getNext"
    /\ prev.ret # NULL /\ call.ret # NULL /\ prev.ret # call.ret
    /\ rewinds[a] >= 1 /\ Len(log[a]) = 1

\* ---- Symbol.iterator: the hand-written iterator and the generator ----
KeyNames == <<"a", "b", "c", "d", "e", "f">>

\* this[key]: undefined for a property the object does not have
Get(o, key) == IF key \in DOMAIN o.val THEN o.val[key] ELSE UNDEFINED

\* keys[idx] used as a property name: beyond the array it is undefined,
\* which names the property "undefined"
KeyAt(keys, idx) == IF idx < Len(keys) THEN keys[idx + 1] ELSE "undefined"

\* an object literal with n properties; obj[Symbol.iterator]() has been called
\* on both versions: the hand-written one has read Object.keys(this), the
\* generator has not run any of its body yet
InitSym ==
  /\ IdleBut("sym")
  /\ \E n \in 0..MaxKeys :
       \E v \in [{KeyNames[k] : k \in 1..n} -> 1..MaxVal] :
         obj = [keys |-> SubSeq(KeyNames, 1, n), val |-> v]
  /\ cl = [keys |-> obj.keys, i |-> 0]
  /\ gen = [pc |-> "start", keys |-> <<>>, i |-> 0]
  /\ outC = <<>>
  /\ outG = <<>>

\* done computed as i >= keys.length: the last property is reported as done
nextClassical_doneEarly ==
  /\ Len(outC) < Len(obj.keys) + MaxPast
  /\ cl' = [cl EXCEPT !.i = cl.i + 1]
  /\ outC' = Append(outC, [value |-> Get(obj, KeyAt(cl.keys, cl.i)),
                           done |-> cl'.i >= Len(cl.keys)])
  /\ UNCHANGED <<notSym, obj, gen, outG>>

\* next: () => { const value = this[keys[i]]; i += 1;
\*               const done = i > keys.length; return { value, done }; }
nextClassical ==
  /\ Len(outC) < Len(obj.keys) + MaxPast
  /\ cl' = [cl EXCEPT !.i = cl.i + 1]
  /\ outC' = Append(outC, [value |-> Get(obj, KeyAt(cl.keys, cl.i)),
                           done |-> cl'.i > Len(cl.keys)])
  /\ UNCHANGED <<notSym, obj, gen, outG>>

\* the generator's loop from its test on: yield this[keys[idx]] or finish
RunLoop(keys, idx, more) ==
  IF more
  THEN /\ gen' = [pc |-> "yielded", keys |-> keys, i |-> idx]
       /\ outG' = Append(outG, [value |-> Get(obj, KeyAt(keys, idx)), done |-> FALSE])
  ELSE /\ gen' = [pc |-> "done", keys |-> keys, i |-> idx]
       /\ outG' = Append(outG, [value |-> UNDEFINED, done |-> TRUE])

\* the loop test written i <= keys.length
nextGenerator_oneMore ==
  /\ Len(outG) < Len(obj.keys) + MaxPast
  /\ CASE gen.pc = "start"   -> RunLoop(obj.keys, 0, 0 <= Len(obj.keys))
       [] gen.pc = "yielded" -> RunLoop(gen.keys, gen.i + 1, gen.i + 1 <= Len(gen.keys))
       [] gen.pc = "done"    -> RunLoop(gen.keys, gen.i, FALSE)
  /\ UNCHANGED <<notSym, obj, cl, outC>>

\* next() of the generator object: run to the next yield or to the end
\*   const keys = Object.keys(this);
\*   for (let i = 0; i < keys.length; i++) { yield this[keys[i]]; }
nextGenerator ==
  /\ Len(outG) < Len(obj.keys) + MaxPast
  /\ CASE gen.pc = "start"   -> RunLoop(obj.keys, 0, 0 < Len(obj.keys))
       [] gen.pc = "yielded" -> RunLoop(gen.keys, gen.i + 1, gen.i + 1 < Len(gen.keys))
       [] gen.pc = "done"    -> RunLoop(gen.keys, gen.i, FALSE)
  /\ UNCHANGED <<notSym, obj, cl, outC>>

NextSym == nextClassical \/ nextGenerator

SpecSym == InitSym /\ [][NextSym]_vars

\* what for-of and spread take from a run of results: the values before the
\* first done
RECURSIVE Taken(_)
Taken(out) ==
  IF out = <<>> \/ Head(out).done THEN <<>>
  ELSE <<Head(out).value>> \o Taken(Tail(out))

Finished(out) == \E k \in 1..Len(out) : out[k].done

\* the object's property values in key order
ValuesOf(o) == [k \in 1..Len(o.keys) |-> o.val[o.keys[k]]]

\* C18: pulled until done, the generator and the hand-written iterator give
\* the same values in the same order, the object's property values in key
\* order; result by result they agree on done and on every value delivered.
C18_SameSequence ==
  /\ \A k \in 1..Min(Len(outC), Len(outG)) :
       /\ outC[k].done = outG[k].done
       /\ ~outC[k].done => outC[k].value = outG[k].value
  /\ (Finished(outC) /\ Finished(outG)) =>
       (Taken(outC) = Taken(outG) /\ Taken(outG) = ValuesOf(obj))

\* both pulled to done over an object of at least two properties
C18_Witness ==
  /\ Len(obj.keys) >= 2
  /\ Len(outC) = Len(obj.keys) + 1 /\ Len(outG) = Len(obj.keys) + 1
  /\ outC[Len(outC)].done /\ outG[Len(outG)].done

\* C19: over n properties the hand-written next() returns the i-th value with
\* done false on calls 1..n and done true from call n + 1 on, so for-of and
\* spread see exactly the n values, none dropped or repeated.
C19_ClassicalNext ==
  /\ \A k \in 1..Len(outC) :
       IF k <= Len(obj.keys)
       THEN outC[k] = [value |-> obj.val[obj.keys[k]], done |-> FALSE]
       ELSE outC[k].done
  /\ Finished(outC) => Taken(outC) = ValuesOf(obj)

\* next() called n + 2 times over n >= 2 properties: done twice
C19_Witness ==
  /\ Len(obj.keys) >= 2
  /\ Len(outC) = Len(obj.keys) + 2
  /\ outC[Len(outC)].done /\ outC[Len(outC) - 1].done
  /\ outG = <<>>

\* ---- the Singleton constructors ----
\* typeof x === 'object' for the values instance can hold
TypeOf(x) == IF x = UNDEFINED THEN "undefined" ELSE "object"

\* if (instance): undefined is falsy, every object is truthy
Truthy(x) == x # UNDEFINED

\* the test each variant makes before it initialises `this`
AlreadyMade(v) ==
  IF v = "property" THEN TypeOf(instance[v]) = "object" ELSE Truthy(instance[v])

\* the empty object `new` hands to the constructor as `this`
Blank == [start |-> UNDEFINED, version |-> "undefined", frozen |-> FALSE]

InitSing == IdleBut("sing") /\ SingIdle

\* Object.freeze(instance) left out
NewSingleton_noFreeze(v) ==
  /\ Len(returned[v]) < MaxNew
  /\ LET this == Len(heap) + 1
     IN  IF AlreadyMade(v)
         THEN /\ heap' = Append(heap, Blank)
              /\ returned' = [returned EXCEPT ![v] = Append(returned[v], instance[v])]
              /\ UNCHANGED <<instance, inits>>
         ELSE /\ heap' = Append(heap, [start |-> 0, version |-> "1.1.2", frozen |-> FALSE])
              /\ instance' = [instance EXCEPT ![v] = this]
              /\ inits' = [inits EXCEPT ![v] = inits[v] + 1]
              /\ returned' = [returned EXCEPT ![v] = Append(returned[v], this)]
  /\ UNCHANGED <<notSing, tried>>

\* the assignment that stores `this` left out
NewSingleton_noStore(v) ==
  /\ Len(returned[v]) < MaxNew
  /\ LET this == Len(heap) + 1
     IN  IF AlreadyMade(v)
         THEN /\ heap' = Append(heap, Blank)
              /\ returned' = [returned EXCEPT ![v] = Append(returned[v], instance[v])]
              /\ UNCHANGED <<instance, inits>>
         ELSE /\ heap' = Append(heap, [start |-> 0, version |-> "1.1.2", frozen |-> v = "frozen"])
              /\ inits' = [inits EXCEPT ![v] = inits[v] + 1]
              /\ returned' = [returned EXCEPT ![v] = Append(returned[v], this)]
              /\ UNCHANGED instance
  /\ UNCHANGED <<notSing, tried>>

\* new Singleton(): `new` allocates `this`; the constructor either returns
\* the stored instance, which then is the value of the expression, or sets
\* start and version, stores `this` (and freezes it in the third variant)
\* and returns nothing, so the value is `this`
NewSingleton(v) ==
  /\ Len(returned[v]) < MaxNew
  /\ LET this == Len(heap) + 1
     IN  IF AlreadyMade(v)
         THEN /\ heap' = Append(heap, Blank)
              /\ returned' = [returned EXCEPT ![v] = Append(returned[v], instance[v])]
              /\ UNCHANGED <<instance, inits>>
         ELSE /\ heap' = Append(heap, [start |-> 0, version |-> "1.1.2", frozen |-> v = "frozen"])
              /\ instance' = [instance EXCEPT ![v] = this]
              /\ inits' = [inits EXCEPT ![v] = inits[v] + 1]
              /\ returned' = [returned EXCEPT ![v] = Append(returned[v], this)]
  /\ UNCHANGED <<notSing, tried>>

\* sing.start = value through the k-th reference a variant returned; the
\* script is sloppy-mode code, so on a frozen object the write is ignored
SetStart(v, k, value) ==
  /\ k \in 1..Len(returned[v])
  /\ LET o == returned[v][k]
     IN  heap' = IF heap[o].frozen THEN heap
                 ELSE [heap EXCEPT ![o].start = value]
  /\ tried' = tried \cup {v}
  /\ UNCHANGED <<notSing, instance, returned, inits>>

\* the version strings a write may store
Versions == {"1.1.2", "2.0.0"}

\* sing.version = value, likewise
SetVersion(v, k, value) ==
  /\ k \in 1..Len(returned[v])
  /\ LET o == returned[v][k]
     IN  heap' = IF heap[o].frozen THEN heap
                 ELSE [heap EXCEPT ![o].version = value]
  /\ tried' = tried \cup {v}
  /\ UNCHANGED <<notSing, instance, returned, inits>>

NextSing ==
  \/ \E v \in Variants : NewSingleton(v)
  \/ \E v \in Variants, k \in 1..MaxNew, value \in 0..MaxVal : SetStart(v, k, value)
  \/ \E v \in Variants, k \in 1..MaxNew, value \in Versions : SetVersion(v, k, value)

SpecSing == InitSing /\ [][NextSing]_vars

\* C20: every new Singleton() of the function-property variant and of the
\* closure variant evaluates to the object the first one produced, and
\* start and version are initialised at most once.
C20_OneInstance ==
  \A v \in {"property", "closure"} :
    /\ \A k \in 1..Len(returned[v]) : returned[v][k] = returned[v][1]
    /\ inits[v] <= 1
    /\ returned[v] # <<>> => (inits[v] = 1 /\ heap[returned[v][1]].version \in Versions)

\* both variants instantiated MaxNew times, objects of other variants
\* allocated in between
C20_Witness ==
  /\ Len(returned["property"]) = MaxNew /\ Len(returned["closure"]) = MaxNew
  /\ returned["property"][1] # returned["closure"][1]
  /\ Len(heap) >= 2 * MaxNew

\* C21: in the frozen variant, once new Singleton() has returned, every
\* reference it returns is the one instance and that instance keeps
\* start = 0 and version = '1.1.2' whatever writes are attempted through them.
C21_FrozenKeeps ==
  \A k \in 1..Len(returned["frozen"]) :
    /\ returned["frozen"][k] = instance["frozen"]
    /\ heap[returned["frozen"][k]].start = 0
    /\ heap[returned["frozen"][k]].version = "1.1.2"

\* writes were attempted through the frozen variant's references, obtained
\* by more than one new Singleton(), while the same writes changed the
\* closure variant's instance
C21_Witness ==
  /\ "frozen" \in tried /\ Len(returned["frozen"]) >= 2
  /\ returned["closure"] # <<>>
  /\ heap[returned["closure"][1]].start # 0
  /\ heap[returned["closure"][1]].version # "1.1.2"

\* ---- counters: a global variable against a closure ----
InitCtr == IdleBut("ctr") /\ CtrIdle

\* counter1(): currentNumber1 += 1; return currentNumber1
counter1 ==
  /\ Len(returns["counter1"]) < MaxCalls
  /\ currentNumber1' = currentNumber1 + 1
  /\ returns' = [returns EXCEPT !["counter1"] = Append(@, currentNumber1')]
  /\ UNCHANGED <<notCtr, currentNumber>>

\* any code in the file assigns the global variable, as foo() does
foo(value) ==
  /\ currentNumber1' = value
  /\ currentNumber1' # currentNumber1
  /\ UNCHANGED <<notCtr, currentNumber, returns>>

\* the counter's state kept in the global variable instead of a closure
betterCounter_global(c) ==
  /\ Len(returns[c]) < MaxCalls
  /\ currentNumber1' = currentNumber1 + 1
  /\ returns' = [returns EXCEPT ![c] = Append(@, Start(c) + currentNumber1')]
  /\ UNCHANGED <<notCtr, currentNumber>>

\* betterCounterN(): currentNumber += 1; return currentNumber, on the
\* variable of the scope the function was created in
betterCounter(c) ==
  /\ Len(returns[c]) < MaxCalls
  /\ currentNumber' = [currentNumber EXCEPT ![c] = @ + 1]
  /\ returns' = [returns EXCEPT ![c] = Append(@, currentNumber'[c])]
  /\ UNCHANGED <<notCtr, currentNumber1>>

NextCtr ==
  \/ counter1
  \/ \E value \in 0..MaxVal : foo(value)
  \/ \E c \in Counters : betterCounter(c)

SpecCtr == InitCtr /\ [][NextCtr]_vars

\* C22: the k-th call of a closure counter created with start s returns
\* s + k, whatever calls of other counters and writes to other variables
\* come in between.
C22_KthCall ==
  \A c \in Counters : \A k \in 1..Len(returns[c]) : returns[c][k] = Start(c) + k

\* all three closure counters called MaxCalls times, counter1 called too and
\* thrown off by a write to its global variable
C22_Witness ==
  /\ \A c \in Counters : Len(returns[c]) = MaxCalls
  /\ returns["betterCounter3"][MaxCalls] = 9 + MaxCalls
  /\ \E k \in 1..Len(returns["counter1"]) : returns["counter1"][k] # k

\* ---- the car factory ----
\* the type arguments tried: the three registered constructors, a name
\* CarMaker does not have, its own properties prototype (an object), name (a
\* string) and factory (a function), and call, which it inherits from
\* Function.prototype
Types == CarCtors \cup {"Truck", "prototype", "name", "factory", "call"}

\* typeof CarMaker[type]
TypeOfMember(t) ==
  CASE t \in CarCtors \cup {"factory", "call"} -> "function"
    [] t = "prototype" -> "object"
    [] t = "name" -> "string"
    [] OTHER -> "undefined"

\* this.doors = ... in the constructor
Doors(t) == CASE t = "SUV" -> 10 [] t = "Convertible" -> 2 [] t = "Compact" -> 4

InitCar == IdleBut("car") /\ CarIdle

\* the body of CarMaker.factory(type), refuse being its first test
factoryWith(t, refuse) ==
  /\ Len(cars) < MaxCars
  /\ IF refuse
     THEN \* throw new Error(`${type} doesn't exist`)
          /\ outcome' = [type |-> t, threw |-> "Error", car |-> 0]
          /\ UNCHANGED <<proto, cars>>
     ELSE IF t \notin DOMAIN proto
     THEN \* CarMaker[type].prototype is undefined: reading .drive throws
          /\ outcome' = [type |-> t, threw |-> "TypeError", car |-> 0]
          /\ UNCHANGED <<proto, cars>>
     ELSE \* without drive in reach the prototype becomes a new CarMaker()
          /\ proto' = [proto EXCEPT ![t] = TRUE]
          /\ IF t = "factory"
             THEN \* new CarMaker.factory() runs factory(undefined), which throws
                  /\ outcome' = [type |-> t, threw |-> "Error", car |-> 0]
                  /\ UNCHANGED cars
             ELSE /\ cars' = Append(cars, [type |-> t, doors |-> Doors(t), drive |-> TRUE])
                  /\ outcome' = [type |-> t, threw |-> "no", car |-> Len(cars) + 1]
  /\ UNCHANGED notCar

\* the first test written as CarMaker[type] === undefined
factory_undefinedOnly(t) == factoryWith(t, TypeOfMember(t) = "undefined")

\* CarMaker.factory(type)
factory(t) == factoryWith(t, TypeOfMember(t) # "function")

NextCar == \E t \in Types : factory(t)

SpecCar == InitCar /\ [][NextCar]_vars

\* C23: CarMaker.factory(type) throws an Error whenever CarMaker[type] is
\* not a function, and then makes no car and replaces no prototype; for a
\* registered car constructor it returns a car of that type without throwing.
C23_Factory ==
  [][LET t == outcome'.type
     IN  /\ TypeOfMember(t) # "function" =>
              outcome'.threw = "Error" /\ cars' = cars /\ proto' = proto
         /\ t \in CarCtors =>
              /\ outcome'.threw = "no" /\ outcome'.car = Len(cars')
              /\ cars' = Append(cars, [type |-> t, doors |-> Doors(t), drive |-> TRUE])]_vars

\* after a car was made and its constructor's prototype replaced, a call
\* with something that is not a function threw and left both as they were
C23_Witness ==
  /\ outcome.type \in {"prototype", "name"} /\ outcome.threw = "Error"
  /\ Len(cars) >= 1 /\ proto[cars[1].type]
  /\ \E t \in CarCtors : ~proto[t]

\* ---- setTimeout ----
\* pc after the last statement: the synchronous run is over
Done == 6

\* what the callback passed by statement n prints when it runs
Callbacks ==
  [n \in 1..5 |-> CASE n = 1 -> "log after one second"
                    [] n = 2 -> "hello"
                    [] n = 3 -> ""
                    [] n = 4 -> "hello Sue"
                    [] n = 5 -> "hello sue"]

\* the script is run by Node or by a browser
InitTimer ==
  /\ IdleBut("timer")
  /\ env \in {"node", "browser"}
  /\ pc = 1 /\ clock = 0
  /\ timers = <<>>
  /\ console = <<>>

\* setTimeout(cb, d): the callback is queued for the time clock + d
setTimeout(cb, d) ==
  timers' = Append(timers, [cb |-> cb, at |-> clock, due |-> clock + d, fired |-> -1])

\* console.log(text) by the script (by = 0) or by timer number by
Logged(o, text, by) == Append(o, [text |-> text, by |-> by, pc |-> pc])

\* the statements that pass a function: an anonymous one, sayHello, an
\* anonymous one calling sayHelloToSomeone('Sue'), and the bound function
Register(n) ==
  /\ pc = n /\ n \in {1, 2, 4, 5}
  /\ setTimeout(Callbacks[n], Delay)
  /\ pc' = pc + 1
  /\ UNCHANGED <<notTimer, env, clock, console>>

\* the statement written with the call wrapped in a function, as line 788 is
CallAtOnce_wrapped ==
  /\ pc = 3
  /\ setTimeout(Callbacks[4], Delay)
  /\ pc' = pc + 1
  /\ UNCHANGED <<notTimer, env, clock, console>>

\* try { setTimeout(sayHelloToSomeone('Sue'), 1000) } catch (e) { ... }: the
\* argument is evaluated first, which prints 'hello Sue' and yields
\* undefined; Node refuses undefined with a TypeError, whose name the catch
\* block prints, a browser queues a timer that does nothing
CallAtOnce ==
  /\ pc = 3
  /\ IF env = "node"
     THEN /\ console' = Logged(Logged(console, "hello Sue", 0), "TypeError", 0)
          /\ UNCHANGED timers
     ELSE /\ console' = Logged(console, "hello Sue", 0)
          /\ setTimeout(Callbacks[3], Delay)
  /\ pc' = pc + 1
  /\ UNCHANGED <<notTimer, env, clock>>

\* time passes, while the script runs as well as afterwards
Tick ==
  /\ clock + Delay \div 2 <= MaxClock
  /\ clock' = clock + Delay \div 2
  /\ UNCHANGED <<notTimer, env, pc, timers, console>>

\* the timers not run yet
Pending == {k \in 1..Len(timers) : timers[k].fired = -1}

\* the event loop runs a callback as soon as the script is over, due or not
Fire_early ==
  /\ pc = Done /\ Pending # {}
  /\ LET k == CHOOSE x \in Pending : \A y \in Pending : x <= y
     IN  /\ timers' = [timers EXCEPT ![k].fired = clock]
         /\ console' = IF timers[k].cb = "" THEN console ELSE Logged(console, timers[k].cb, k)
  /\ UNCHANGED <<notTimer, env, pc, clock>>

\* the event loop: with the script over, the oldest timer whose time has
\* come runs its callback
Fire ==
  /\ pc = Done /\ Pending # {}
  /\ LET k == CHOOSE x \in Pending : \A y \in Pending : x <= y
     IN  /\ timers[k].due <= clock
         /\ timers' = [timers EXCEPT ![k].fired = clock]
         /\ console' = IF timers[k].cb = "" THEN console ELSE Logged(console, timers[k].cb, k)
  /\ UNCHANGED <<notTimer, env, pc, clock>>

NextTimer ==
  \/ \E n \in 1..5 : Register(n)
  \/ CallAtOnce
  \/ Tick
  \/ Fire

SpecTimer == InitTimer /\ [][NextTimer]_vars

\* C24: a callback given to setTimeout(cb, d) never runs before d has
\* elapsed, so never during the synchronous run that registered it, whereas
\* setTimeout(sayHelloToSomeone('Sue'), 1000) prints 'hello Sue' at
\* registration, before the output of every timer callback.
C24_NotBefore ==
  /\ \A k \in 1..Len(timers) :
       timers[k].fired # -1 => timers[k].fired >= timers[k].at + Delay
  /\ \A j \in 1..Len(console) :
       console[j].by # 0 =>
         /\ console[j].pc = Done
         /\ \E m \in 1..(j - 1) : console[m].text = "hello Sue" /\ console[m].by = 0 /\ console[m].pc = 3
  /\ pc > 3 => \E m \in 1..Len(console) : console[m].text = "hello Sue" /\ console[m].by = 0 /\ console[m].pc = 3

\* time passed while the script ran, so a timer was due before the script
\* was over; it ran afterwards, and 'hello Sue' was printed twice: at once by
\* the script and a second later by the timer of line 788
C24_Witness ==
  /\ \E k \in 1..Len(timers) : timers[k].fired > timers[k].due
  /\ \E j, m \in 1..Len(console) :
       /\ console[m].text = "hello Sue" /\ console[m].by = 0
       /\ console[j].text = "hello Sue" /\ console[j].by # 0
       /\ m < j

\* ---- increaseByOne ----
\* const arr1 = [...]: a literal of the numbers 1..MaxVal + 1, as [1, 2, 3] is
InitArr ==
  /\ IdleBut("arr")
  /\ literal \in SeqsUpTo(1..(MaxVal + 1), MaxLen)
  /\ arr1 = literal
  /\ stmt = "call"
  /\ printed = <<>>

\* for (let i = 0; i < arr.length; i++) { arr[i] += 1; } on the array passed,
\* which is the caller's array, not a copy of it
increaseByOne(arr) == [k \in 1..Len(arr) |-> arr[k] + 1]

\* increaseByOne(arr1);
CallIncrease ==
  /\ stmt = "call"
  /\ arr1' = increaseByOne(arr1)
  /\ stmt' = "log"
  /\ UNCHANGED <<notArr, literal, printed>>

\* console.log(arr1);
LogArr ==
  /\ stmt = "log"
  /\ printed' = arr1
  /\ stmt' = "end"
  /\ UNCHANGED <<notArr, literal, arr1>>

NextArr == CallIncrease \/ LogArr

SpecArr == InitArr /\ [][NextArr]_vars

\* C25: after increaseByOne(arr1) on arr1 = [1, 2, 3], console.log(arr1)
\* shows [1, 2, 3], as the comment next to it says.
C25_PrintsLiteral ==
  (stmt = "end" /\ literal = <<1, 2, 3>>) => printed = <<1, 2, 3>>

\* ---- copy, deepCopy and mixin ----
\* values: numbers, null and references to an object or array of the store
Prim(n) == [t |-> "prim", v |-> n]
Ref(a)  == [t |-> "ref", v |-> a]
Null    == [t |-> "null", v |-> 0]

\* the property names of the object literals
PropNames == <<"state", "sports">>

\* an object literal: each name absent or bound to one of the values V
ObjectsOver(V) ==
  UNION {{[ctor |-> "Object", names |-> ns, vals |-> vs] : vs \in [1..Len(ns) -> V]} :
         ns \in {<<>>, <<PropNames[1]>>, <<PropNames[2]>>, PropNames}}

\* an array literal of values V
ArraysOver(V) ==
  {[ctor |-> "Array", names |-> <<>>, vals |-> vs] : vs \in SeqsUpTo(V, MaxElems)}

\* what object a of the literals may hold: 1, 2, null, or an object or
\* array written inside it (a later one, so nothing contains itself)
ValuesIn(a) == {Prim(1), Prim(2), Null} \cup {Ref(b) : b \in (a + 1)..MaxObjs}

\* typeof x === 'object'
IsObject(x) == x.t \in {"ref", "null"}

\* the objects reachable from object a, itself included
RECURSIVE Reach(_, _)
Reach(h, a) ==
  {a} \cup UNION {Reach(h, h[a].vals[k].v) : k \in {x \in 1..Len(h[a].vals) : h[a].vals[x].t = "ref"}}

\* a value written out in full, as console.log shows it
RECURSIVE Unfold(_, _)
Unfold(h, x) ==
  IF x.t = "ref"
  THEN [t |-> "ref", v |-> 0, ctor |-> h[x.v].ctor, names |-> h[x.v].names,
        vals |-> [k \in 1..Len(h[x.v].vals) |-> Unfold(h, h[x.v].vals[k])]]
  ELSE [t |-> x.t, v |-> x.v, ctor |-> "", names |-> <<>>, vals |-> <<>>]

\* original = { ... }: object 1 is an object literal, the others are the
\* objects and arrays nested in it or standing beside it
\* the objects a..MaxObjs as the script's literals can make them
RECURSIVE ObjectLiterals(_)
ObjectLiterals(a) ==
  IF a > MaxObjs THEN {<<>>}
  ELSE {<<o>> \o rest :
          o \in ObjectsOver(ValuesIn(a)) \cup (IF a = 1 THEN {} ELSE ArraysOver(ValuesIn(a))),
          rest \in ObjectLiterals(a + 1)}

InitCopy ==
  /\ IdleBut("copy")
  /\ store \in ObjectLiterals(1)
  /\ newone = 0 /\ how = "none" /\ picked = <<>>
  /\ failed = FALSE /\ mutated = FALSE

\* result[prop] = value: an own property is overwritten in place, a new one
\* is added after the others; an array element is added at the end
Assign(o, prop, value) ==
  IF o.ctor = "Array" THEN [o EXCEPT !.vals = Append(@, value)]
  ELSE IF \E k \in 1..Len(o.names) : o.names[k] = prop
  THEN [o EXCEPT !.vals[CHOOSE k \in 1..Len(o.names) : o.names[k] = prop] = value]
  ELSE [o EXCEPT !.names = Append(@, prop), !.vals = Append(@, value)]

\* Object.getOwnPropertyNames(o)[k - 1], for an array its (k - 1)-th index
NameAt(o, k) == IF o.ctor = "Array" THEN "" ELSE o.names[k]

\* copy(source): const result = {}; result[prop] = source[prop] for every
\* own property
copy(h, a) ==
  [store |-> Append(h, [ctor |-> "Object", names |-> h[a].names, vals |-> h[a].vals]),
   val |-> Ref(Len(h) + 1), threw |-> FALSE]

\* deepCopy with the recursive call left out: result[prop] = source[prop]
deepCopy_assign(h, x) ==
  IF x.t = "ref"
  THEN [store |-> Append(h, h[x.v]), val |-> Ref(Len(h) + 1), threw |-> FALSE]
  ELSE [store |-> h, val |-> x, threw |-> x.t = "null"]

\* deepCopy(source): a primitive is returned as it is; for typeof 'object'
\* result = new source.constructor(), which throws for null, and then
\* result[prop] = deepCopy(source[prop]) for every own property.
\* copyProps is the forEach from the k-th property on.
RECURSIVE deepCopy(_, _), copyProps(_, _, _, _)
deepCopy(h, x) ==
  IF ~IsObject(x) THEN [store |-> h, val |-> x, threw |-> FALSE]
  ELSE IF x = Null THEN [store |-> h, val |-> x, threw |-> TRUE]
  ELSE LET result == Len(h) + 1
           c == copyProps(Append(h, [ctor |-> h[x.v].ctor, names |-> <<>>, vals |-> <<>>]),
                          x.v, result, 1)
       IN  [store |-> c.store, val |-> Ref(result), threw |-> c.threw]

copyProps(h, source, result, k) ==
  IF k > Len(h[source].vals) THEN [store |-> h, threw |-> FALSE]
  ELSE LET c == deepCopy(h, h[source].vals[k])
       IN  IF c.threw THEN [store |-> c.store, threw |-> TRUE]
           ELSE copyProps([c.store EXCEPT ![result] = Assign(@, NameAt(h[source], k), c.val)],
                          source, result, k + 1)

\* the first source to define a property wins: it is not overwritten
mixin_firstWins(h, sources) ==
  LET result == Len(h) + 1
      Keep(o, prop, value) ==
        IF \E k \in 1..Len(o.names) : o.names[k] = prop THEN o ELSE Assign(o, prop, value)
      RECURSIVE each(_, _), props(_, _, _)
      props(g, sourceCopy, k) ==
        IF k > Len(g[sourceCopy].names) THEN g
        ELSE props([g EXCEPT ![result] = Keep(@, g[sourceCopy].names[k], g[sourceCopy].vals[k])],
                   sourceCopy, k + 1)
      each(g, n) ==
        IF n > Len(sources) THEN [store |-> g, val |-> Ref(result), threw |-> FALSE]
        ELSE LET c == deepCopy(g, Ref(sources[n]))
             IN  IF c.threw THEN [store |-> c.store, val |-> Ref(result), threw |-> TRUE]
                 ELSE each(props(c.store, c.val.v, 1), n + 1)
  IN  each(Append(h, [ctor |-> "Object", names |-> <<>>, vals |-> <<>>]), 1)

\* mixin(...sources): const result = {}; for each source in turn
\* sourceCopy = deepCopy(source) and result[prop] = sourceCopy[prop] for
\* every own property of sourceCopy
mixin(h, sources) ==
  LET result == Len(h) + 1
      RECURSIVE each(_, _), props(_, _, _)
      props(g, sourceCopy, k) ==
        IF k > Len(g[sourceCopy].names) THEN g
        ELSE props([g EXCEPT ![result] = Assign(@, g[sourceCopy].names[k], g[sourceCopy].vals[k])],
                   sourceCopy, k + 1)
      each(g, n) ==
        IF n > Len(sources) THEN [store |-> g, val |-> Ref(result), threw |-> FALSE]
        ELSE LET c == deepCopy(g, Ref(sources[n]))
             IN  IF c.threw THEN [store |-> c.store, val |-> Ref(result), threw |-> TRUE]
                 ELSE each(props(c.store, c.val.v, 1), n + 1)
  IN  each(Append(h, [ctor |-> "Object", names |-> <<>>, vals |-> <<>>]), 1)

\* a call returned c (or threw)
Returned(c, name) ==
  /\ store' = c.store
  /\ failed' = c.threw
  /\ newone' = IF c.threw THEN 0 ELSE c.val.v
  /\ how' = name
  /\ UNCHANGED <<notCopy, mutated>>

\* const newOne = copy(original)
CallCopy ==
  /\ how = "none"
  /\ Returned(copy(store, 1), "copy")
  /\ UNCHANGED picked

\* const newone = deepCopy(original)
CallDeepCopy ==
  /\ how = "none"
  /\ Returned(deepCopy(store, Ref(1)), "deepCopy")
  /\ UNCHANGED picked

\* const sue = mixin(identity, address, ...), the arguments object literals
CallMixin(sources) ==
  /\ how = "none"
  /\ \A n \in 1..Len(sources) : store[sources[n]].ctor = "Object"
  /\ Returned(mixin(store, sources), "mixin")
  /\ picked' = sources

\* newone.myArray.push(4), newOne.version = 2: a change to the returned
\* object or to an object or array reachable from it, an element added
\* (k past the end) or overwritten
Mutate(a, k) ==
  /\ newone # 0 /\ ~mutated
  /\ a \in Reach(store, newone)
  /\ IF k = Len(store[a].vals) + 1
     THEN store[a].ctor = "Array" /\ store' = [store EXCEPT ![a].vals = Append(@, Prim(4))]
     ELSE k \in 1..Len(store[a].vals) /\ store' = [store EXCEPT ![a].vals[k] = Prim(4)]
  /\ mutated' = TRUE
  /\ UNCHANGED <<notCopy, newone, how, picked, failed>>

NextCopy ==
  \/ CallCopy
  \/ CallDeepCopy
  \/ \E sources \in SeqsUpTo(1..MaxObjs, MaxSources) : CallMixin(sources)
  \/ \E a \in 1..Len(store) : \E k \in 1..(Len(store[a].vals) + 1) : Mutate(a, k)

SpecCopy == InitCopy /\ [][NextCopy]_vars

\* C26: whatever change is made to the object deepCopy(source) returned or
\* to anything nested in it, every value reachable from source stays as it
\* was: the copy shares no object or array with the source.
C26_DeepCopyApart ==
  [][how' = "deepCopy" =>
       /\ Unfold(store', Ref(1)) = Unfold(store, Ref(1))
       /\ newone' # 0 => Reach(store', newone') \cap Reach(store', 1) = {}]_vars

\* an array or object nested in the deep copy was changed, so the copy and
\* the source now differ
C26_Witness ==
  /\ how = "deepCopy" /\ mutated
  /\ Unfold(store, Ref(newone)) # Unfold(store, Ref(1))
  /\ \E a \in Reach(store, newone) \ {newone} :
       \E k \in 1..Len(store[a].vals) : store[a].vals[k] = Prim(4)

\* the own property names of an object, and the value of one of them
NamesOf(o) == {o.names[k] : k \in 1..Len(o.names)}
Prop(o, name) == o.vals[CHOOSE k \in 1..Len(o.names) : o.names[k] = name]

InitDrain ==
  /\ IdleBut("iter")
  /\ nodeType = [n \in Nodes |-> ELEMENT_NODE]
  /\ children = [n \in Nodes |-> ChildrenOf([m \in 2..MaxNodes |-> m - 1], n)]
  /\ \E it \in Iters :
       /\ IF it = "myObj"
          THEN root = NULL /\ \E arr \in Literals : data = [x \in Iters |-> IF x = it THEN arr ELSE <<>>]
          ELSE root \in Nodes /\ data = [x \in Iters |-> IF x = it THEN DOMToArray(root) ELSE <<>>]
       /\ live = {it} /\ watch = {it}
       /\ from \in 0..Len(data[it])
       /\ i = [x \in Iters |-> IF x = it THEN from ELSE 0]
       /\ elem = IF from = 0 THEN UNDECLARED ELSE data[it][from]
       /\ prev = [it |-> it, op |-> "construct", ret |-> UNDEFINED]
       /\ call = [it |-> it, op |-> "construct", pre |-> 0, ret |-> UNDEFINED, threw |-> FALSE]
  /\ first = [x \in Iters |-> <<>>]
  /\ log = [x \in Iters |-> <<>>]
  /\ rewinds = [x \in Iters |-> 0]
  /\ edits = 0

\* while (it.hasNext()): the test, made at the start and after every body
LoopTest(it) ==
  /\ call.op # "hasNext"
  /\ CallHasNext(it)

\* the body, entered when the test was true: it.getNext()
LoopBody(it) ==
  /\ call.op = "hasNext" /\ call.ret = TRUE
  /\ getNext(it)

\* the test was false: the loop is over
LoopOver == call.op = "hasNext" /\ call.ret = FALSE

NextDrain == \E it \in live : LoopTest(it) \/ LoopBody(it)

\* the loop is the only code running and runs on until its test fails
SpecDrain == InitDrain /\ [][NextDrain]_vars /\ WF_vars(NextDrain)

\* C28: from cursor c over n items, the loop `while hasNext() do getNext()`
\* with no rewind ends, after exactly n - c calls of getNext, each of which
\* returned an element (the (c+1)-th to the n-th, none of them null), and
\* with the cursor at n.
C28_LoopEnds ==
  /\ <>LoopOver
  /\ [](LoopOver =>
         \A it \in live :
           /\ Len(log[it]) = Len(data[it]) - from
           /\ log[it] = SubSeq(data[it], from + 1, Len(data[it]))
           /\ \A k \in 1..Len(log[it]) : log[it][k] # NULL
           /\ i[it] = Len(data[it]))

\* a loop that started past the first item and made at least two calls
C28_Witness ==
  /\ LoopOver
  /\ from >= 1
  /\ \E it \in live : Len(log[it]) >= 2 /\ call.it = it
====
